---- MODULE Spec2Model ----
(***************************************************************************)
(* Model of package inject (github.com/infogulch/inject): New builds a     *)
(* needle (map from reflect.Type to reflect.Value); needle.Inject checks a  *)
(* function's shape, resolves its parameters by type, calls it and         *)
(* extracts the optional error; Must panics on a non-nil error.            *)
(***************************************************************************)
EXTENDS Integers, Sequences, FiniteSets, TLC

VARIABLES newState, newArgs, newErr, registry, frame

vars == <<newState, newArgs, newErr, registry, frame>>

\* ---------------------------------------------------------------- bounds
MaxArgs == 4
MaxParams == 2
MaxArgsC == 2

\* ------------------------------------------------- interface{} values
\* An interface{} value is its dynamic type (as reflect.Type.String()) and
\* a payload; the nil interface has no dynamic type.
NoType == "<nil>"
NilIface == [type |-> NoType, v |-> 0]
A0 == [type |-> "A", v |-> 0]
A1 == [type |-> "A", v |-> 1]
B1 == [type |-> "B", v |-> 1]
SliceA == [type |-> "[]A", v |-> 2]
Values == {NilIface, A0, A1, B1, SliceA}

ParamTypes == {"A", "B", "[]A"}
SliceTypes == {"[]A"}
ErrorType == "error"

\* error values: the message kind, the type or kind it names, and the
\* message of the wrapped cause
NoErr == [kind |-> "nil", name |-> "", cause |-> ""]
MkErr(kind, name) == [kind |-> kind, name |-> name, cause |-> ""]

\* keys values by their underlying kind: A and B are both int
UnderlyingKind(v) == IF v.type \in {"A", "B"} THEN "int" ELSE v.type

\* reflect.TypeOf(v)
TypeOf(v) == v.type

\* reflect.ValueOf(v): the zero Value for a nil interface
ZeroValue == [valid |-> FALSE, iface |-> NilIface]
ValueOf(v) == [valid |-> v # NilIface, iface |-> v]

\* ------------------------------------------------------------------ New
EmptyNeedle == [t \in {} |-> ZeroValue]

\* one iteration of New's loop on args[k], and the rest of the loop
RECURSIVE NewLoop(_, _, _)
NewLoop(n, args, k) ==
    IF k > Len(args)
    THEN [status |-> "ok", n |-> n, err |-> NoErr]
    ELSE LET typ == TypeOf(args[k])
             val == ValueOf(args[k])
         IN  IF typ \in DOMAIN n
             THEN \* old.Interface(), val.Interface() panic on the zero Value
                  IF ~n[typ].valid \/ ~val.valid
                  THEN [status |-> "panic", n |-> EmptyNeedle, err |-> NoErr]
                  ELSE [status |-> "err", n |-> EmptyNeedle,
                        err |-> MkErr("cannot inject two values of the same type", typ)]
             ELSE NewLoop(n @@ (typ :> val), args, k + 1)

NewResult(args) == NewLoop(EmptyNeedle, args, 1)

RECURSIVE SeqsUpTo(_, _)
SeqsUpTo(S, k) ==
    IF k = 0 THEN {<<>>}
    ELSE LET shorter == SeqsUpTo(S, k - 1)
         IN  shorter \cup {Append(s, x) : s \in {t \in shorter : Len(t) = k - 1}, x \in S}

ArgSeqs == SeqsUpTo(Values, MaxArgs)

\* a call New(args...) with the arguments drawn from Args
New(Args) ==
    /\ newState = "init"
    /\ \E args \in Args :
          LET r == NewResult(args)
          IN  /\ newState' = r.status
              /\ newErr' = r.err
              /\ registry' = r.n
              /\ newArgs' = args
    /\ UNCHANGED frame

\* --------------------------------------------------- arguments of Inject
\* The fn argument: its reflect.Kind, and for a func its parameter types
\* (typ.In), return types (typ.Out), whether it is variadic, whether the
\* func value is nil, and what its body does when it runs.
NilArg == [kind |-> "invalid", isNil |-> FALSE, in |-> <<>>, variadic |-> FALSE,
           out |-> <<>>, body |-> "ok"]
IntArg == [kind |-> "int", isNil |-> FALSE, in |-> <<>>, variadic |-> FALSE,
           out |-> <<>>, body |-> "ok"]

OutShapes == {<<>>, <<"string">>, <<"string", ErrorType>>, <<"string", "int">>,
              <<"string", ErrorType, ErrorType>>}

ValidOut(out) == Len(out) = 1 \/ (Len(out) = 2 /\ out[2] = ErrorType)

Funcs ==
    {f \in [kind : {"func"}, isNil : BOOLEAN, in : SeqsUpTo(ParamTypes, MaxParams),
            variadic : BOOLEAN, out : OutShapes, body : {"ok", "err", "panic"}] :
        /\ f.variadic => (Len(f.in) >= 1 /\ f.in[Len(f.in)] \in SliceTypes)
        /\ f.body = "err" => f.out = <<"string", ErrorType>>
        /\ f.body = "panic" => ValidOut(f.out)
        /\ f.isNil => f.body = "ok"}

Callables == {NilArg, IntArg} \cup Funcs

\* ------------------------------------------------ one Inject call's frame
NoPrev == [set |-> FALSE, args |-> <<>>, ret |-> NilIface, err |-> NoErr]

IdleFrame ==
    [pc |-> "idle", fn |-> NilArg, args |-> <<>>, results |-> <<>>,
     ret |-> NilIface, err |-> NoErr, calls |-> 0, lookups |-> 0,
     received |-> <<>>, origin |-> "", prev |-> NoPrev]

BeginFrame(f, prev) == [IdleFrame EXCEPT !.pc = "checkFunc", !.fn = f, !.prev = prev]

\* return i, err
Return(fr, i, err) == [fr EXCEPT !.pc = "done", !.ret = i, !.err = err]

\* an unrecovered panic raised at origin
Panic(fr, origin) == [fr EXCEPT !.pc = "panic", !.origin = origin]

\* goes on to build the arguments without the checks of the return values
KindCheckOnly(fr) ==
    IF fr.fn.kind # "func"
    THEN Return(fr, NilIface, MkErr("arg is not a Func", fr.fn.kind))
    ELSE [fr EXCEPT !.pc = "resolve"]

\* if val.Kind() != reflect.Func
KindCheck(fr) ==
    IF fr.fn.kind # "func"
    THEN Return(fr, NilIface, MkErr("arg is not a Func", fr.fn.kind))
    ELSE [fr EXCEPT !.pc = "checkOut"]

\* lacks the check for a function with no return values
OutCheckNoZero(fr) ==
    LET out == fr.fn.out
    IN  IF Len(out) > 2
        THEN Return(fr, NilIface, MkErr("more than 2 return values", ""))
        ELSE IF Len(out) = 2 /\ out[2] # ErrorType
        THEN Return(fr, NilIface, MkErr("non-error second return value", out[2]))
        ELSE [fr EXCEPT !.pc = "resolve"]

\* the three checks of typ.NumOut() and typ.Out(1)
OutCheck(fr) ==
    LET out == fr.fn.out
    IN  IF Len(out) > 2
        THEN Return(fr, NilIface, MkErr("more than 2 return values", ""))
        ELSE IF Len(out) = 2 /\ out[2] # ErrorType
        THEN Return(fr, NilIface, MkErr("non-error second return value", out[2]))
        ELSE IF Len(out) < 1
        THEN Return(fr, NilIface, MkErr("no return values", ""))
        ELSE [fr EXCEPT !.pc = "resolve"]

\* ignores ok: a missing type yields the map's zero Value
BuildArgIgnoringOk(n, fr) ==
    LET typ == fr.fn.in[Len(fr.args) + 1]
        looked == [fr EXCEPT !.lookups = @ + 1]
    IN  [looked EXCEPT !.args = Append(@, IF typ \in DOMAIN n THEN n[typ] ELSE ZeroValue)]

\* binds the i-th parameter to the i-th value passed to New
BuildArgByPosition(n, fr) ==
    LET i == Len(fr.args) + 1
        typ == fr.fn.in[i]
        looked == [fr EXCEPT !.lookups = @ + 1]
    IN  IF typ \notin DOMAIN n \/ i > Len(newArgs)
        THEN Return(looked, NilIface, MkErr("fn requires a type that's missing", typ))
        ELSE [looked EXCEPT !.args = Append(@, ValueOf(newArgs[i]))]

\* one iteration of the loop that builds the arguments
BuildArg(n, fr) ==
    LET typ == fr.fn.in[Len(fr.args) + 1]
        looked == [fr EXCEPT !.lookups = @ + 1]
    IN  IF typ \notin DOMAIN n
        THEN Return(looked, NilIface, MkErr("fn requires a type that's missing", typ))
        ELSE [looked EXCEPT !.args = Append(@, n[typ])]

\* reflect: Type.Elem of a slice type, and Type.AssignableTo among the
\* concrete (non-interface) types of the model
Elem(t) == IF t = "[]A" THEN "A" ELSE NoType
AssignableTo(xt, t) == xt = t

RECURSIVE Digest(_, _)
Digest(received, k) ==
    IF k > Len(received) THEN 0
    ELSE (received[k].iface.v + 1) + 4 * Digest(received, k + 1)

\* the error a body returns, as an interface value and as an error
ErrIface == [type |-> "*errors.errorString", v |-> 0]
ImplementsError(i) == i.type = "*errors.errorString"
BodyErr == MkErr("boom", "")

\* the values the function body returns for the arguments it received
BodyResults(fn, received) ==
    [j \in 1..Len(fn.out) |->
        IF fn.out[j] = ErrorType
        THEN IF fn.body = "err" THEN ErrIface ELSE NilIface
        ELSE [type |-> fn.out[j], v |-> Digest(received, 1)]]

\* the function body runs with the arguments reflect hands it
Invoke(fr, received) ==
    LET ran == [fr EXCEPT !.calls = @ + 1, !.received = received]
    IN  IF fr.fn.body = "panic"
        THEN Panic(ran, "callable")
        ELSE [ran EXCEPT !.pc = "extract", !.results = BodyResults(fr.fn, received)]

\* results := val.Call(args), with reflect.Value.Call's own checks
CallFn(fr) ==
    LET in == fr.fn.in
        n == Len(in)
        fixed == IF fr.fn.variadic THEN n - 1 ELSE n
    IN  IF fr.fn.isNil
        THEN Panic(fr, "reflect.Value.Call: call of nil function")
        ELSE IF \E k \in 1..Len(fr.args) : ~fr.args[k].valid
        THEN Panic(fr, "reflect: Call using zero Value argument")
        ELSE IF \E k \in 1..fixed : ~AssignableTo(TypeOf(fr.args[k].iface), in[k])
        THEN Panic(fr, "reflect: Call using wrong type")
        ELSE IF fr.fn.variadic
        THEN LET x == fr.args[n]
             IN  IF ~AssignableTo(TypeOf(x.iface), Elem(in[n]))
                 THEN Panic(fr, "reflect: cannot use slice as element type in Call")
                 ELSE Invoke(fr, Append(SubSeq(fr.args, 1, fixed),
                                        ValueOf([type |-> in[n], v |-> x.iface.v])))
        ELSE Invoke(fr, fr.args)

\* errors.Wrap(cause, "cannot inject") and errors.Cause
Wrap(cause) == [kind |-> "cannot inject", name |-> "", cause |-> cause.kind]
Cause(err) == IF err.cause # "" THEN MkErr(err.cause, "") ELSE err

\* extract the optional error; return results[0].Interface(), err
ExtractErr(fr) ==
    IF Len(fr.results) = 2 /\ fr.results[2] # NilIface /\ ~ImplementsError(fr.results[2])
    THEN Panic(fr, "interface conversion: not an error")
    ELSE IF Len(fr.results) = 0
    THEN Panic(fr, "index out of range")
    ELSE Return(fr, fr.results[1],
                IF Len(fr.results) = 2 /\ fr.results[2] # NilIface
                THEN Wrap(BodyErr) ELSE NoErr)

\* Must: panic(err) if err != nil, else return i
MustResult(fr) ==
    IF fr.err # NoErr THEN Panic(fr, "Must") ELSE [fr EXCEPT !.pc = "must"]

\* --------------------------------------------------------------- actions
Goroutines == {"g1", "g2"}

\* a call n.Inject(fn) with fn drawn from Fns
InjectBegin(g, Fns) ==
    /\ newState = "ok"
    /\ frame[g].pc = "idle"
    /\ \E f \in Fns : frame' = [frame EXCEPT ![g] = BeginFrame(f, NoPrev)]
    /\ UNCHANGED <<newState, newArgs, newErr, registry>>

\* the caller repeats the call it has just completed
InjectAgain(g) ==
    /\ frame[g].pc = "done"
    /\ ~frame[g].prev.set
    /\ frame' = [frame EXCEPT ![g] =
           BeginFrame(frame[g].fn, [set |-> TRUE, args |-> frame[g].args,
                                    ret |-> frame[g].ret, err |-> frame[g].err])]
    /\ UNCHANGED <<newState, newArgs, newErr, registry>>

InjectKind(g) ==
    /\ frame[g].pc = "checkFunc"
    /\ frame' = [frame EXCEPT ![g] = KindCheck(frame[g])]
    /\ UNCHANGED <<newState, newArgs, newErr, registry>>

InjectOut(g) ==
    /\ frame[g].pc = "checkOut"
    /\ frame' = [frame EXCEPT ![g] = OutCheck(frame[g])]
    /\ UNCHANGED <<newState, newArgs, newErr, registry>>

\* takes the resolved value out of the needle
InjectArgConsuming(g) ==
    /\ frame[g].pc = "resolve"
    /\ Len(frame[g].args) < Len(frame[g].fn.in)
    /\ frame' = [frame EXCEPT ![g] = BuildArg(registry, frame[g])]
    /\ registry' = [t \in DOMAIN registry \ {frame[g].fn.in[Len(frame[g].args) + 1]}
                       |-> registry[t]]
    /\ UNCHANGED <<newState, newArgs, newErr>>

InjectArg(g) ==
    /\ frame[g].pc = "resolve"
    /\ Len(frame[g].args) < Len(frame[g].fn.in)
    /\ frame' = [frame EXCEPT ![g] = BuildArg(registry, frame[g])]
    /\ UNCHANGED <<newState, newArgs, newErr, registry>>

InjectCall(g) ==
    /\ frame[g].pc = "resolve"
    /\ Len(frame[g].args) >= Len(frame[g].fn.in)
    /\ frame' = [frame EXCEPT ![g] = CallFn(frame[g])]
    /\ UNCHANGED <<newState, newArgs, newErr, registry>>

\* stores the result in the needle for later injections
InjectReturnStoring(g) ==
    /\ frame[g].pc = "extract"
    /\ frame' = [frame EXCEPT ![g] = ExtractErr(frame[g])]
    /\ registry' = [t \in DOMAIN registry \cup {"string"} |->
                       IF t = "string" THEN ValueOf(ExtractErr(frame[g]).ret)
                       ELSE registry[t]]
    /\ UNCHANGED <<newState, newArgs, newErr>>

InjectReturn(g) ==
    /\ frame[g].pc = "extract"
    /\ frame' = [frame EXCEPT ![g] = ExtractErr(frame[g])]
    /\ UNCHANGED <<newState, newArgs, newErr, registry>>

Must(g) ==
    /\ frame[g].pc = "done"
    /\ frame' = [frame EXCEPT ![g] = MustResult(frame[g])]
    /\ UNCHANGED <<newState, newArgs, newErr, registry>>

\* the caller is done with the values a call returned
Discard(g) ==
    /\ frame[g].pc \in {"done", "must"}
    /\ frame' = [frame EXCEPT ![g] = IdleFrame]
    /\ UNCHANGED <<newState, newArgs, newErr, registry>>

\* a whole Inject call run alone against needle n
RECURSIVE RunInject(_, _)
RunInject(n, fr) ==
    IF fr.pc = "checkFunc" THEN RunInject(n, KindCheck(fr))
    ELSE IF fr.pc = "checkOut" THEN RunInject(n, OutCheck(fr))
    ELSE IF fr.pc = "resolve"
    THEN IF Len(fr.args) < Len(fr.fn.in)
         THEN RunInject(n, BuildArg(n, fr))
         ELSE RunInject(n, CallFn(fr))
    ELSE IF fr.pc = "extract" THEN RunInject(n, ExtractErr(fr))
    ELSE fr

\* -------------------------------------------------------- specifications
Init ==
    /\ newState = "init"
    /\ newArgs = <<>>
    /\ newErr = NoErr
    /\ registry = EmptyNeedle
    /\ frame = [g \in Goroutines |-> IdleFrame]

\* one caller
Next ==
    \/ New(ArgSeqs)
    \/ InjectBegin("g1", Callables)
    \/ InjectAgain("g1")
    \/ InjectKind("g1")
    \/ InjectOut("g1")
    \/ InjectArg("g1")
    \/ InjectCall("g1")
    \/ InjectReturn("g1")
    \/ Must("g1")
    \/ Discard("g1")

Spec == Init /\ [][Next]_vars

\* callers on several goroutines, all started after New has returned
CallablesC ==
    {f \in Callables : /\ ~f.isNil
                       /\ ~f.variadic
                       /\ f.body # "panic"
                       /\ f.in \in {<<>>, <<"A">>, <<"B", "A">>}
                       /\ Len(f.out) \in 1..2}

ArgSeqsC == SeqsUpTo({A0, B1}, MaxArgsC)

NextC ==
    \/ New(ArgSeqsC)
    \/ \E g \in Goroutines :
          \/ InjectBegin(g, CallablesC)
          \/ InjectAgain(g)
          \/ InjectKind(g)
          \/ InjectOut(g)
          \/ InjectArg(g)
          \/ InjectCall(g)
          \/ InjectReturn(g)
          \/ Must(g)
          \/ Discard(g)

SpecC == Init /\ [][NextC]_vars


\* ------------------------------------------------------ claim vocabulary
\* the types of the values passed to New, and the value passed for type t
RegTypes == {newArgs[i].type : i \in 1..Len(newArgs)}
RegisteredFor(t) == newArgs[CHOOSE i \in 1..Len(newArgs) : newArgs[i].type = t]

\* Inject has returned to its caller (Must may have panicked afterwards)
Returned(fr) == fr.pc \in {"done", "must"} \/ (fr.pc = "panic" /\ fr.origin = "Must")
Ended(fr) == fr.pc \in {"done", "must", "panic"}
AfterCall(fr) == fr.pc \in {"extract", "done", "must", "panic"}

WellShaped(fn) == fn.kind = "func" /\ ValidOut(fn.out)
Missing(fn) == {k \in 1..Len(fn.in) : fn.in[k] \notin RegTypes}
FirstMissing(fn) == CHOOSE k \in Missing(fn) : \A m \in Missing(fn) : k <= m
ShapeErrors == {"arg is not a Func", "more than 2 return values",
                "non-error second return value", "no return values"}
MissingError == "fn requires a type that's missing"

\* C1: whenever the values passed to New hold two values of one type, New
\* returns the duplicate-type error and a nil handle.
C1_DuplicateRejected ==
    (/\ newState # "init"
     /\ \E i, j \in 1..Len(newArgs) :
           i < j /\ newArgs[i] # NilIface /\ newArgs[i].type = newArgs[j].type)
    => (/\ newState = "err"
        /\ newErr.kind = "cannot inject two values of the same type"
        /\ registry = EmptyNeedle)

\* C2: when the values passed to New have pairwise distinct types, New
\* succeeds with one entry per value, and a one-parameter function declaring
\* a registered type is called with exactly the value registered for it.
C2_DistinctResolvable ==
    (/\ newState # "init"
     /\ \A i, j \in 1..Len(newArgs) : i # j => newArgs[i].type # newArgs[j].type)
    => (/\ newState = "ok"
        /\ Cardinality(DOMAIN registry) = Len(newArgs)
        /\ \A g \in Goroutines :
              LET fr == frame[g]
              IN  (/\ WellShaped(fr.fn) /\ ~fr.fn.isNil /\ ~fr.fn.variadic
                   /\ Len(fr.fn.in) = 1 /\ fr.fn.in[1] \in RegTypes
                   /\ AfterCall(fr))
                  => (/\ fr.calls = 1
                      /\ fr.received = <<[valid |-> TRUE,
                                          iface |-> RegisteredFor(fr.fn.in[1])]>>))

C2_Witness ==
    /\ newState = "ok" /\ Len(newArgs) = 3 /\ newArgs[3] = A1
    /\ frame["g1"].pc = "done" /\ frame["g1"].fn.in = <<"A">>
    /\ frame["g1"].received = <<[valid |-> TRUE, iface |-> A1]>>

\* C3: a well-shaped function with a parameter type absent from the registry
\* is never called, and Inject returns a nil result with the missing-type
\* error naming the first such parameter type from the left.
C3_MissingDependency ==
    \A g \in Goroutines :
        LET fr == frame[g]
        IN  (WellShaped(fr.fn) /\ Missing(fr.fn) # {} /\ fr.pc # "idle")
            => (/\ fr.calls = 0
                /\ Ended(fr) =>
                      (/\ Returned(fr)
                       /\ fr.ret = NilIface
                       /\ fr.err = [kind |-> MissingError,
                                    name |-> fr.fn.in[FirstMissing(fr.fn)],
                                    cause |-> ""]))

C3_Witness ==
    /\ frame["g1"].pc = "done" /\ frame["g1"].fn.in = <<"A", "B">>
    /\ "A" \in RegTypes /\ "B" \notin RegTypes
    /\ frame["g1"].err.kind = MissingError /\ frame["g1"].err.name = "B"

\* C4: a non-func argument, a func with no return value, with more than two,
\* or with a non-error second of two is rejected with its own error and a nil
\* result and is never called; exactly the funcs returning one value, or two
\* with an error second, get past the checks.
C4_ShapeClassification ==
    \A g \in Goroutines :
        LET fr == frame[g]
            fn == fr.fn
            expected ==
                IF fn.kind # "func" THEN MkErr("arg is not a Func", fn.kind)
                ELSE IF Len(fn.out) = 0 THEN MkErr("no return values", "")
                ELSE IF Len(fn.out) > 2 THEN MkErr("more than 2 return values", "")
                ELSE MkErr("non-error second return value", fn.out[2])
        IN  /\ (fr.pc # "idle" /\ ~WellShaped(fn))
                => (/\ fr.calls = 0
                    /\ fr.pc \notin {"resolve", "extract"}
                    /\ Ended(fr) =>
                          (Returned(fr) /\ fr.ret = NilIface /\ fr.err = expected))
            /\ (Ended(fr) /\ WellShaped(fn)) => fr.err.kind \notin ShapeErrors

C4_Witness ==
    /\ frame["g1"].pc = "done" /\ frame["g1"].fn.out = <<"string", "int">>
    /\ frame["g1"].err = MkErr("non-error second return value", "int")
    /\ frame["g1"].ret = NilIface /\ frame["g1"].calls = 0

\* C5: when the checks pass and every parameter resolves, the function is
\* called exactly once; with one return value Inject returns it and a nil
\* error, with two it returns the first and, when the second is non-nil, an
\* error wrapping it whose cause is the function's error.
C5_CallAndNormalize ==
    \A g \in Goroutines :
        LET fr == frame[g]
        IN  (WellShaped(fr.fn) /\ Missing(fr.fn) = {} /\ Ended(fr))
            => (/\ fr.calls = 1
                /\ Returned(fr) =>
                      (/\ fr.ret = fr.results[1]
                       /\ fr.ret # NilIface
                       /\ IF fr.fn.body = "err"
                          THEN fr.err # NoErr /\ Cause(fr.err) = BodyErr
                          ELSE fr.err = NoErr))

\* C6: a two-parameter function over the registered types A and B receives,
\* at each position, the value registered for that position's type, whatever
\* order the values were passed to New in.
C6_BindingByType ==
    \A g \in Goroutines :
        LET fr == frame[g]
        IN  (/\ WellShaped(fr.fn) /\ ~fr.fn.isNil /\ ~fr.fn.variadic
             /\ fr.fn.in \in {<<"A", "B">>, <<"B", "A">>}
             /\ {"A", "B"} \subseteq RegTypes
             /\ AfterCall(fr))
            => (/\ fr.received = [k \in 1..2 |->
                       [valid |-> TRUE, iface |-> RegisteredFor(fr.fn.in[k])]]
                /\ \A p \in Permutations(1..Len(newArgs)) :
                      LET r == NewResult([i \in 1..Len(newArgs) |-> newArgs[p[i]]])
                      IN  /\ r.status = "ok"
                          /\ fr.received = [k \in 1..2 |-> r.n[fr.fn.in[k]]])

C6_Witness ==
    /\ newArgs = <<A0, B1>>
    /\ frame["g1"].pc = "done" /\ frame["g1"].fn.in = <<"B", "A">>
    /\ frame["g1"].received = <<[valid |-> TRUE, iface |-> B1],
                                [valid |-> TRUE, iface |-> A0]>>

\* C7: no panic is raised by New or Inject themselves: the only panics come
\* from the called function's body or from Must.
C7_NoCoreFault ==
    /\ newState # "panic"
    /\ \A g \in Goroutines :
          frame[g].pc = "panic" => frame[g].origin \in {"callable", "Must"}

\* the outcome of an Inject call: resolved arguments, result, error, and
\* whether it returned or panicked
Outcome(fr) == <<fr.args, fr.ret, fr.err, fr.origin, fr.calls>>
Alone(fr) == RunInject(NewResult(newArgs).n, BeginFrame(fr.fn, fr.prev))

\* C8: whatever Inject calls have run, the registry is the one New produced,
\* every call ends as it would on that registry, and a repeated identical
\* call resolves the same arguments and returns the same result and error.
C8_RegistryUnchanged ==
    newState = "ok" =>
        /\ registry = NewResult(newArgs).n
        /\ \A g \in Goroutines :
              LET fr == frame[g]
              IN  /\ fr.pc = "done" => Outcome(fr) = Outcome(Alone(fr))
                  /\ (fr.pc = "done" /\ fr.prev.set)
                        => (/\ fr.args = fr.prev.args
                            /\ fr.ret = fr.prev.ret
                            /\ fr.err = fr.prev.err)

C8_Witness ==
    /\ frame["g1"].pc = "done" /\ frame["g1"].prev.set
    /\ frame["g1"].err.kind = "cannot inject" /\ Len(frame["g1"].args) = 2

\* C9: the checks come before any lookup and any call: a func with an invalid
\* return shape and an unregistered parameter gets the return-shape error,
\* lookups go left to right, and the call comes after all of them.
C9_CheckOrder ==
    \A g \in Goroutines :
        LET fr == frame[g]
        IN  /\ (fr.lookups > 0 \/ fr.calls > 0) => WellShaped(fr.fn)
            /\ fr.lookups \in {Len(fr.args), Len(fr.args) + 1}
            /\ \A k \in 1..Len(fr.args) : fr.args[k] = registry[fr.fn.in[k]]
            /\ fr.calls > 0 => fr.lookups = Len(fr.fn.in)
            /\ (fr.fn.kind = "func" /\ ~ValidOut(fr.fn.out) /\ Missing(fr.fn) # {}
                 /\ Ended(fr))
                  => (fr.err.kind \in ShapeErrors /\ fr.lookups = 0)

C9_Witness ==
    /\ frame["g1"].pc = "done" /\ Len(frame["g1"].fn.out) = 3
    /\ Missing(frame["g1"].fn) # {}
    /\ frame["g1"].err.kind = "more than 2 return values"
    /\ frame["g1"].lookups = 0

\* C10: with Inject calls interleaved on several goroutines after New has
\* returned, the registry stays the one New produced and every call ends with
\* the arguments, result and error it has when run alone.
C10_ConcurrentInject ==
    newState = "ok" =>
        /\ registry = NewResult(newArgs).n
        /\ \A g \in Goroutines :
              Ended(frame[g]) =>
                  LET alone == Alone(frame[g])
                  IN  /\ frame[g].args = alone.args
                      /\ frame[g].ret = alone.ret
                      /\ frame[g].err = alone.err

C10_Witness ==
    /\ frame["g1"].pc = "resolve" /\ Len(frame["g1"].args) = 1
    /\ frame["g1"].fn.in = <<"B", "A">>
    /\ frame["g2"].pc = "done" /\ frame["g2"].calls = 1
    /\ frame["g2"].fn.in = <<"A">> /\ frame["g2"].prev.set

====
